---- MODULE Spec2Model ----
(***************************************************************************)
(* A model of the two trading programs of the repository and of the        *)
(* helpers they share:                                                     *)
(*   - CryptocurrencyTradingBot.py: the buy loop check_and_buy, the two    *)
(*     sell loops check_and_sell_increase / check_and_sell_decrease, the   *)
(*     threading.Event sell_executed, the retrying fetch                   *)
(*     get_ohlcv_with_retry and the module-level main loop;                *)
(*   - market_trend_trader.py: the single loop trading_strategy and the    *)
(*     supervising loop main.                                              *)
(* The exchange (pyupbit / upbit) is the environment: its balance, its     *)
(* ledger rows and its open orders are state that the programs read and    *)
(* change only through calls, and that can change between two calls.      *)
(*                                                                         *)
(* Units.  KRW amounts are integers.  Coin quantities are integers in      *)
(* units of 0.00001 coin, so the source's 0.0001 is 10.  Prices are        *)
(* integers in units of 0.01 KRW, so a percentage band p >= a * 1.0175     *)
(* is computed exactly as p * 10000 >= a * 10175.                          *)
(***************************************************************************)
EXTENDS Integers, Sequences, FiniteSets, TLC

(***************************************************************************)
(* Program constants.                                                      *)
(***************************************************************************)
MinBalance == 5500          \* CryptocurrencyTradingBot.py:82   krw_balance < 5500
OrderKrw == 5500            \* CryptocurrencyTradingBot.py:170  buy_market_order(.., 5500)
DustThreshold == 10         \* CryptocurrencyTradingBot.py:206  balance_amount < 0.0001
MAX_RETRIES == 5            \* CryptocurrencyTradingBot.py:47
TsMinBalance == 5500        \* market_trend_trader.py:117      krw_balance < 5500
TsOrderKrw == 5500          \* market_trend_trader.py:179      buy_market_order(.., 5500)
MaxHoldings == 13           \* market_trend_trader.py:165      len(owned_tickers) >= 13

(***************************************************************************)
(* Bounds of the model.                                                    *)
(***************************************************************************)
MaxKrw == 11000             \* the KRW balance stays within 0..MaxKrw
OtherHeld == 12             \* positions held in currencies outside Assets
MaxQty == 10                \* the largest quantity one row holds

\* The currencies of the model. The bot's KRW market lists A alone, so that B is
\* a currency its account may hold without a KRW ticker; the trader's lists both.
Assets == {"A", "B"}
AssetOrder == <<"A", "B">>
LotQty == DustThreshold     \* what one filled buy adds to a row
AvgPrice == 100 * 100       \* the cost basis of a bought lot: 100.00
Prices == {96 * 100, 100 * 100, 103 * 100}
\* The prices a sell evaluation is tried with, around the bands of the trends.
EvalPrices == {9600, 9700, 9800, 9850, 10000, 10055, 10060, 10100, 10150, 10200}
Trends == {"bull", "bear", "sideways"}
Threads == {"inc", "dec"}

VARIABLES
    prog,               \* which program is running: "bot" or "trader"
    other_held,         \* gateway: the positions held in currencies outside Assets
    krw,                \* gateway: the available KRW balance
    ledger,             \* gateway: asset -> [balance, locked, avg_buy_price]
    pending,            \* gateway: asset -> a market buy is in flight
    gw,                 \* the gateway calls made by the last step
    tried,              \* trader: asset -> did its last buy fail, and when
    sell_executed,      \* bot: the threading.Event
    buyPc,              \* bot: where check_and_buy is
    filtered_tickers,   \* bot: check_and_buy's final candidates
    sellPc,             \* bot: thread -> where the sell loop is
    balances,           \* bot: thread -> the rows of its snapshot still to visit
    freed,              \* bot: a sell succeeded since check_and_buy saw too little
    tsPc,               \* trader: where trading_strategy is
    buy_candidates,     \* trader: the candidates still to visit
    ts_rows,            \* trader: the rows of the sell pass still to visit
    owned_tickers,      \* trader: what get_owned_tickers() last returned
    fetchKind,          \* fetch: which of the fetches is made
    replies,            \* fetch: what the gateway answers to each call, in order
    attempt,            \* fetch: the gateway calls made so far
    fetchRet,           \* fetch: what the caller got, "running" before that
    scanKind,           \* scan: which of the scans is made
    scanCase,           \* scan: asset -> how its fetch and its evaluation go
    scanPending,        \* scan: the futures as_completed has not handed over
    scanResult,         \* scan: the assets collected, in order
    botAlive,           \* supervision: bot thread -> is_alive()
    message_printed,    \* supervision: the bot's flag of that name
    botMainPc,          \* supervision: where the bot's main loop is
    tsThreads,          \* supervision: the trader's threads, is_alive() of each
    tsMainPc,           \* supervision: where the trader's main is
    data,               \* indicators: the candles handed to the function
    indKind,            \* indicators: which function is called
    indArgs,            \* indicators: its other arguments
    indRet,             \* indicators: what the call gave
    market,             \* cascade: ticker -> its volume and its latest closes
    cascPc,             \* cascade: the stage check_and_buy's scan is at
    volumes,            \* cascade: the tickers that have a volume
    top_35_tickers,     \* cascade: line 107
    rising_1_percent,   \* cascade: line 110
    rising_0_35_percent, \* cascade: line 128
    guarded,            \* cascade: filtered_tickers of line 146
    final_tickers,      \* cascade: filtered_tickers of line 164
    selected            \* cascade: the tickers bought in the cycle, in order

gwVars == <<krw, ledger, pending>>
botVars == <<sell_executed, buyPc, filtered_tickers, sellPc, balances, freed>>
tsVars == <<tsPc, buy_candidates, ts_rows, owned_tickers>>
fetchVars == <<fetchKind, replies, attempt, fetchRet>>
scanVars == <<scanKind, scanCase, scanPending, scanResult>>
supVars == <<botAlive, message_printed, botMainPc, tsThreads, tsMainPc>>
indVars == <<data, indKind, indArgs, indRet>>
cascVars == <<market, cascPc, volumes, top_35_tickers, rising_1_percent,
              rising_0_35_percent, guarded, final_tickers, selected>>
helperVars == <<fetchVars, scanVars, supVars, indVars, cascVars>>
vars == <<prog, other_held, krw, ledger, pending, gw, tried, sell_executed, buyPc, filtered_tickers,
          sellPc, balances, freed, tsPc, buy_candidates, ts_rows, owned_tickers,
          fetchKind, replies, attempt, fetchRet,
          scanKind, scanCase, scanPending, scanResult,
          botAlive, message_printed, botMainPc, tsThreads, tsMainPc,
          data, indKind, indArgs, indRet,
          market, cascPc, volumes, top_35_tickers, rising_1_percent,
          rising_0_35_percent, guarded, final_tickers, selected>>

(***************************************************************************)
(* The gateway.                                                            *)
(***************************************************************************)
\* gw holds what the last step did at the gateway: the rows it asked a price (or
\* candles) for, the orders it submitted, the rows it passed over, and the
\* except clause that caught an exception of the step: "none", "row" (the
\* inner except of a sell loop of the bot, lines 233-238 / 296-301) or the name
\* of the loop whose outer except caught it.
NoCalls == [priced |-> <<>>, orders |-> <<>>, skipped |-> <<>>, caught |-> "none"]

Asked(row) == [NoCalls EXCEPT !.priced = <<row>>]

Skipped(row) == [NoCalls EXCEPT !.skipped = <<row>>]

\* The step raised and the named except clause caught it.
Caught(calls, handler) == [calls EXCEPT !.caught = handler]

EmptyRow == [balance |-> 0, locked |-> 0, avg_buy_price |-> 0]

\* The rows an account can start with: none, dust, held at no cost, held.
InitRows ==
    { EmptyRow,
      [balance |-> DustThreshold - 1, locked |-> 0, avg_buy_price |-> AvgPrice],
      [balance |-> MaxQty, locked |-> 0, avg_buy_price |-> 0],
      [balance |-> MaxQty, locked |-> 0, avg_buy_price |-> AvgPrice] }

\* An order for the asset was submitted and is neither filled nor rejected.
InFlight(a) == pending[a] \/ ledger[a].locked > 0

\* upbit.get_balances(): the KRW row, then one row per currency that holds
\* something. The rows of the OtherHeld currencies are left out: they have no
\* KRW market, so the bot passes them over as invalid tickers and the trader
\* finds no candles for them.
RowOf(a) == [currency |-> a, balance |-> ledger[a].balance,
             avg_buy_price |-> ledger[a].avg_buy_price]

RECURSIVE RowsFrom(_)
RowsFrom(i) ==
    IF i > Len(AssetOrder) THEN <<>>
    ELSE LET a == AssetOrder[i]
         IN (IF ledger[a].balance + ledger[a].locked > 0 THEN <<RowOf(a)>> ELSE <<>>)
            \o RowsFrom(i + 1)

get_balances ==
    <<[currency |-> "KRW", balance |-> krw, avg_buy_price |-> 0]>> \o RowsFrom(1)

\* The number of positions the account holds: rows with a cost basis whose
\* quantity is not below dust.
HeldCount ==
    other_held + Cardinality({a \in Assets :
                    /\ ledger[a].balance + ledger[a].locked >= DustThreshold
                    /\ ledger[a].avg_buy_price # 0})

\* `tried` of a buy of trading_strategy: "failed" when a buy submission for
\* the ticker failed earlier in the same cycle, "earlier" when one failed in
\* the cycle before. (A cycle of check_and_buy ends with its one submission.)
OrderRec(side, ticker, ok) ==
    [side |-> side, ticker |-> ticker, krw |-> krw, held |-> HeldCount,
     inflight |-> InFlight(ticker), ok |-> ok,
     tried |-> IF side = "buy" THEN tried[ticker] ELSE "no"]

\* A cycle of trading_strategy begins: the failures of the cycle before are
\* kept as such, older ones are forgotten.
NewCycle ==
    tried' = [a \in Assets |-> IF tried[a] = "failed" THEN "earlier" ELSE "no"]

\* A market buy fills: the lot is added to the row.
BuyFill(a) ==
    /\ pending[a]
    /\ ledger[a].balance + ledger[a].locked + LotQty <= MaxQty
    /\ pending' = [pending EXCEPT ![a] = FALSE]
    /\ ledger' = [ledger EXCEPT ![a].balance = @ + LotQty,
                                ![a].avg_buy_price = AvgPrice]
    /\ gw' = NoCalls
    /\ UNCHANGED <<prog, other_held, krw>>
    /\ UNCHANGED helperVars
    /\ UNCHANGED <<botVars, tsVars>>
    /\ UNCHANGED tried

\* A sell fills: the locked quantity leaves the row, its proceeds arrive.
SellFill(a) ==
    /\ ledger[a].locked > 0
    /\ krw + OrderKrw <= MaxKrw
    /\ krw' = krw + OrderKrw
    /\ ledger' = [ledger EXCEPT ![a].locked = 0,
                     ![a].avg_buy_price = IF ledger[a].balance = 0 THEN 0 ELSE @]
    /\ gw' = NoCalls
    /\ UNCHANGED <<prog, other_held, pending>>
    /\ UNCHANGED helperVars
    /\ UNCHANGED <<botVars, tsVars>>
    /\ UNCHANGED tried

\* The balance changes from outside the process.
Deposit ==
    /\ krw + OrderKrw <= MaxKrw
    /\ krw' = krw + OrderKrw
    /\ gw' = NoCalls
    /\ UNCHANGED <<prog, other_held, ledger, pending>>
    /\ UNCHANGED helperVars
    /\ UNCHANGED <<botVars, tsVars>>
    /\ UNCHANGED tried

Withdraw ==
    /\ krw >= OrderKrw
    /\ krw' = krw - OrderKrw
    /\ gw' = NoCalls
    /\ UNCHANGED <<prog, other_held, ledger, pending>>
    /\ UNCHANGED helperVars
    /\ UNCHANGED <<botVars, tsVars>>
    /\ UNCHANGED tried

\* upbit.buy_market_order(ticker, 5500): a receipt, a failure, or an exception.
\* `raised` tells the caller which.
SubmitBuy(ticker, amount, outcome, handler) ==
    /\ gw' = [priced |-> <<>>, orders |-> <<OrderRec("buy", ticker, outcome = "ok")>>,
              skipped |-> <<>>,
              caught |-> IF outcome = "raised" THEN handler ELSE "none"]
    /\ IF outcome = "ok"
       THEN /\ krw >= amount
            /\ ~pending[ticker]
            /\ krw' = krw - amount
            /\ pending' = [pending EXCEPT ![ticker] = TRUE]
            /\ UNCHANGED ledger
       ELSE UNCHANGED gwVars

\* upbit.sell_limit_order / sell_market_order(ticker, .., volume).
SubmitSell(row, outcome, handler) ==
    LET ticker == row.currency
    IN /\ gw' = [priced |-> <<row>>, orders |-> <<OrderRec("sell", ticker, outcome = "ok")>>,
                 skipped |-> <<>>,
                 caught |-> IF outcome = "raised" THEN handler ELSE "none"]
       /\ IF outcome = "ok"
          THEN /\ row.balance > 0
               /\ ledger[ticker].balance >= row.balance
               /\ ledger' = [ledger EXCEPT ![ticker].balance = @ - row.balance,
                                           ![ticker].locked = @ + row.balance]
               /\ UNCHANGED <<krw, pending>>
          ELSE UNCHANGED gwVars

Outcomes == {"ok", "failure", "raised"}

(***************************************************************************)
(* CryptocurrencyTradingBot.py                                             *)
(***************************************************************************)
\* Line 28 / 89: pyupbit.get_tickers(fiat="KRW").
valid_tickers == IF prog = "bot" THEN {"A"} ELSE Assets

is_valid_ticker(ticker) == ticker \in valid_tickers

\* Lines 183-185: the except of check_and_buy: the error is logged and the
\* while loop goes round.
BuyAbort ==
    /\ buyPc' = "balance"
    /\ filtered_tickers' = {}

\* Lines 77-86: read the balance; with too little, go and wait for a sell.
BuyReadBalance ==
    /\ prog = "bot"
    /\ buyPc = "balance"
    /\ \/ /\ IF krw < MinBalance
             THEN /\ buyPc' = "wait"
                  /\ freed' = FALSE
             ELSE /\ buyPc' = "scan"
                  /\ UNCHANGED freed
          /\ gw' = NoCalls
          /\ UNCHANGED filtered_tickers
       \/ \* get_balance raises: line 183
          /\ BuyAbort
          /\ gw' = Caught(NoCalls, "check_and_buy")
          /\ UNCHANGED freed
    /\ UNCHANGED <<prog, other_held, sell_executed, sellPc, balances, tried>>
    /\ UNCHANGED helperVars
    /\ UNCHANGED <<gwVars, tsVars>>

\* Line 84: sell_executed.wait() returns once the event is set.
BuyWait ==
    /\ prog = "bot"
    /\ buyPc = "wait"
    /\ sell_executed
    /\ buyPc' = "clear"
    /\ gw' = NoCalls
    /\ UNCHANGED <<prog, other_held, sell_executed, filtered_tickers, sellPc, balances, freed>>
    /\ UNCHANGED helperVars
    /\ UNCHANGED <<gwVars, tsVars>>
    /\ UNCHANGED tried

\* Lines 85-86: sell_executed.clear(); continue.
BuyClear ==
    /\ prog = "bot"
    /\ buyPc = "clear"
    /\ sell_executed' = FALSE
    /\ buyPc' = "balance"
    /\ freed' = FALSE
    /\ gw' = NoCalls
    /\ UNCHANGED <<prog, other_held, filtered_tickers, sellPc, balances>>
    /\ UNCHANGED helperVars
    /\ UNCHANGED <<gwVars, tsVars>>
    /\ UNCHANGED tried

\* Lines 88-164: the filter cascade leaves some of the valid tickers.
BuyScan ==
    /\ prog = "bot"
    /\ buyPc = "scan"
    /\ \/ \E f \in SUBSET valid_tickers :
             /\ filtered_tickers' = {t \in f : is_valid_ticker(t)}
             /\ buyPc' = "order"
             /\ gw' = NoCalls
       \/ \* an exception outside the scans (get_tickers) ends the cycle: line 183
          /\ BuyAbort
          /\ gw' = Caught(NoCalls, "check_and_buy")
    /\ UNCHANGED <<prog, other_held, sell_executed, sellPc, balances, freed>>
    /\ UNCHANGED helperVars
    /\ UNCHANGED <<gwVars, tsVars>>
    /\ UNCHANGED tried

\* Lines 166-185: buy one of the candidates at random, or nothing.
BuyOrder ==
    /\ prog = "bot"
    /\ buyPc = "order"
    /\ IF filtered_tickers # {}
       THEN \E selected_ticker \in filtered_tickers, outcome \in Outcomes :
               SubmitBuy(selected_ticker, OrderKrw, outcome, "check_and_buy")
       ELSE /\ gw' = NoCalls
            /\ UNCHANGED gwVars
    /\ buyPc' = "balance"
    /\ filtered_tickers' = {}
    /\ UNCHANGED <<prog, other_held, sell_executed, sellPc, balances, freed, tsVars, tried>>
    /\ UNCHANGED helperVars

\* Lines 250-252 / 313-315: the outer except of a sell loop: the error is
\* logged and the while loop goes round.
SellAbort(t) ==
    /\ balances' = [balances EXCEPT ![t] = <<>>]
    /\ sellPc' = [sellPc EXCEPT ![t] = "balances"]

\* Line 195 / 262: balances = upbit.get_balances().
SellReadBalances(t) ==
    /\ prog = "bot"
    /\ sellPc[t] = "balances"
    /\ \/ /\ balances' = [balances EXCEPT ![t] = get_balances]
          /\ sellPc' = [sellPc EXCEPT ![t] = "rows"]
          /\ gw' = NoCalls
       \/ \* get_balances raises: lines 250-252 / 313-315, the loop goes round
          /\ SellAbort(t)
          /\ gw' = Caught(NoCalls, t)
    /\ UNCHANGED <<prog, other_held, sell_executed, buyPc, filtered_tickers, freed>>
    /\ UNCHANGED helperVars
    /\ UNCHANGED <<gwVars, tsVars>>
    /\ UNCHANGED tried

\* Line 222: current_price >= avg_buy_price * 1.0175;
\* line 289: current_price <= avg_buy_price * 0.9725.
SellTrigger(t, current_price, avg_buy_price) ==
    IF t = "inc"
    THEN current_price * 10000 >= avg_buy_price * 10175
    ELSE current_price * 10000 <= avg_buy_price * 9725

\* (A sell pass without the check of the quantity.)
SellSkipsNoDust(row) ==
    \/ row.avg_buy_price = 0
    \/ ~is_valid_ticker(row.currency)

\* Lines 206-215 / 273-282: the rows a sell pass leaves alone.
SellSkips(row) ==
    \/ row.balance < DustThreshold
    \/ row.avg_buy_price = 0
    \/ ~is_valid_ticker(row.currency)

\* Lines 199-248 / 266-311: one row of the snapshot; after the last row the
\* pass ends (the message, the one-second sleep) and the loop starts over.
SellRow(t) ==
    /\ prog = "bot"
    /\ sellPc[t] = "rows"
    /\ LET row == Head(balances[t])
           rest == Tail(balances[t])
       IN /\ balances' = [balances EXCEPT ![t] = rest]
          /\ sellPc' = [sellPc EXCEPT ![t] = IF rest = <<>> THEN "balances" ELSE "rows"]
          /\ IF SellSkips(row)
             THEN /\ gw' = Skipped(row)
                  /\ UNCHANGED <<gwVars, sell_executed, freed>>
             ELSE \/ \* get_current_price returns None: line 220
                     /\ gw' = Asked(row)
                     /\ UNCHANGED <<gwVars, sell_executed, freed>>
                  \/ \* get_current_price raises: the except of the row
                     /\ gw' = Caught(Asked(row), "row")
                     /\ UNCHANGED <<gwVars, sell_executed, freed>>
                  \/ \E current_price \in Prices :
                        IF SellTrigger(t, current_price, row.avg_buy_price)
                        THEN \E outcome \in Outcomes :
                                /\ SubmitSell(row, outcome, "row")
                                /\ sell_executed' =
                                      IF outcome = "raised" THEN sell_executed ELSE TRUE
                                /\ freed' =
                                      IF outcome = "ok" /\ buyPc = "wait" THEN TRUE ELSE freed
                        ELSE /\ gw' = Asked(row)
                             /\ UNCHANGED <<gwVars, sell_executed, freed>>
    /\ UNCHANGED <<prog, other_held, buyPc, filtered_tickers, tsVars>>
    /\ UNCHANGED helperVars
    /\ UNCHANGED tried

(***************************************************************************)
(* market_trend_trader.py                                                  *)
(***************************************************************************)
\* Lines 103-110: the currencies of the rows other than KRW, dust or not. The
\* OtherHeld rows count with them.
get_owned_tickers == {a \in Assets : ledger[a].balance + ledger[a].locked > 0}

owned_count == other_held + Cardinality(get_owned_tickers)

\* The sequences without repetition over a set: the orders in which
\* as_completed can hand over the futures of a scan.
Orders(S) ==
    {s \in UNION {[1..n -> S] : n \in 0..Cardinality(S)} :
        \A i, j \in DOMAIN s : i # j => s[i] # s[j]}

\* Lines 203-231: what the sell section does with a position.
TsSellOutcome(market_trend, current_price, avg_buy_price) ==
    CASE market_trend = "bull" ->
            IF current_price * 100 >= avg_buy_price * 102 THEN "profit"
            ELSE IF current_price * 100 <= avg_buy_price * 98 THEN "loss"
            ELSE "none"
      [] market_trend = "bear" ->
            IF current_price * 100 <= avg_buy_price * 97 THEN "loss"
            ELSE IF current_price * 100 >= avg_buy_price * 101 THEN "profit"
            ELSE "none"
      [] OTHER ->
            IF current_price * 1000 >= avg_buy_price * 1015 THEN "profit"
            ELSE IF current_price * 1000 <= avg_buy_price * 985 THEN "loss"
            ELSE "none"

\* (An except clause that leaves the loop instead of going round.)
TsAbortEnds ==
    /\ tsPc' = "ended"
    /\ buy_candidates' = <<>>
    /\ ts_rows' = <<>>

\* Lines 237-238: an exception anywhere in the cycle ends the cycle; the loop
\* starts over at once.
TsAbort ==
    /\ tsPc' = "balance"
    /\ buy_candidates' = <<>>
    /\ ts_rows' = <<>>

\* Lines 116-120: read the balance; with too little, sleep a second and start
\* over.
TsReadBalance ==
    /\ prog = "trader"
    /\ tsPc = "balance"
    /\ \/ /\ tsPc' = IF krw < TsMinBalance THEN "sleep" ELSE "scan"
          /\ gw' = NoCalls
          /\ UNCHANGED <<buy_candidates, ts_rows>>
       \/ \* get_balance raises: line 237
          /\ TsAbort
          /\ gw' = Caught(NoCalls, "trading_strategy")
    /\ NewCycle
    /\ UNCHANGED <<prog, other_held>>
    /\ UNCHANGED helperVars
    /\ UNCHANGED <<gwVars, botVars>>
    /\ UNCHANGED owned_tickers

\* Lines 119-120: time.sleep(1); continue.
TsSleep ==
    /\ prog = "trader"
    /\ tsPc = "sleep"
    /\ tsPc' = "balance"
    /\ gw' = NoCalls
    /\ UNCHANGED <<prog, other_held, buy_candidates, ts_rows>>
    /\ UNCHANGED helperVars
    /\ UNCHANGED <<gwVars, botVars>>
    /\ UNCHANGED owned_tickers
    /\ UNCHANGED tried

\* Lines 122-159: the scan. Its candidates are tickers that were not owned when
\* the scan began, in the order their futures completed.
TsScan ==
    /\ prog = "trader"
    /\ tsPc = "scan"
    /\ LET tickers == valid_tickers
       IN \/ /\ owned_tickers' = get_owned_tickers
             /\ \E c \in Orders(tickers \ owned_tickers') :
                   /\ buy_candidates' = c
                   /\ tsPc' = "buy"
                   /\ gw' = NoCalls
                   /\ UNCHANGED ts_rows
          \/ \* get_tickers or get_owned_tickers raises: line 237
             /\ TsAbort
             /\ gw' = Caught(NoCalls, "trading_strategy")
             /\ UNCHANGED owned_tickers
    /\ UNCHANGED <<prog, other_held>>
    /\ UNCHANGED helperVars
    /\ UNCHANGED <<gwVars, botVars>>
    /\ UNCHANGED tried

\* Lines 162-171: the next candidate: read the ledger again, stop at the cap,
\* pass over a ticker that is owned.
\* (A buy loop that does not look whether the candidate is owned.)
AlreadyOwnedNever(ticker, owned) == FALSE

\* Line 168: if ticker in owned_tickers.
AlreadyOwned(ticker, owned) == ticker \in owned

TsBuyNext ==
    /\ prog = "trader"
    /\ tsPc = "buy"
    /\ IF buy_candidates = <<>>
       THEN /\ tsPc' = "sell"
            /\ gw' = NoCalls
            /\ UNCHANGED <<buy_candidates, ts_rows, owned_tickers>>
       ELSE LET ticker == Head(buy_candidates)
            IN \/ /\ owned_tickers' = get_owned_tickers
                  /\ IF owned_count >= MaxHoldings
                     THEN /\ tsPc' = "sell"
                          /\ buy_candidates' = <<>>
                     ELSE IF AlreadyOwned(ticker, owned_tickers')
                     THEN /\ tsPc' = "buy"
                          /\ buy_candidates' = Tail(buy_candidates)
                     ELSE /\ tsPc' = "buy_balance"
                          /\ UNCHANGED buy_candidates
                  /\ gw' = NoCalls
                  /\ UNCHANGED ts_rows
               \/ \* get_owned_tickers raises: line 237
                  /\ TsAbort
                  /\ gw' = Caught(NoCalls, "trading_strategy")
                  /\ UNCHANGED owned_tickers
    /\ UNCHANGED <<prog, other_held>>
    /\ UNCHANGED helperVars
    /\ UNCHANGED <<gwVars, botVars>>
    /\ UNCHANGED tried

\* Lines 173-176: read the balance again; with too little, stop buying.
TsBuyBalance ==
    /\ prog = "trader"
    /\ tsPc = "buy_balance"
    /\ \/ /\ IF krw < TsMinBalance
             THEN /\ tsPc' = "sell"
                  /\ buy_candidates' = <<>>
             ELSE /\ tsPc' = "buy_order"
                  /\ UNCHANGED buy_candidates
          /\ gw' = NoCalls
          /\ UNCHANGED ts_rows
       \/ \* get_balance raises: line 237
          /\ TsAbort
          /\ gw' = Caught(NoCalls, "trading_strategy")
    /\ UNCHANGED <<prog, other_held>>
    /\ UNCHANGED helperVars
    /\ UNCHANGED <<gwVars, botVars>>
    /\ UNCHANGED owned_tickers
    /\ UNCHANGED tried

\* (A buy loop that offers a candidate again when its order failed.)
NextCandidatesRetry(outcome) ==
    IF outcome = "ok" THEN Tail(buy_candidates) ELSE buy_candidates

\* Line 163: `for ticker in buy_candidates` moves on to the next candidate,
\* whatever the order of this one returned.
NextCandidates(outcome) == Tail(buy_candidates)

\* Lines 178-180: buy the candidate; an exception ends the cycle.
TsBuyOrder ==
    /\ prog = "trader"
    /\ tsPc = "buy_order"
    /\ \E outcome \in Outcomes :
          /\ SubmitBuy(Head(buy_candidates), TsOrderKrw, outcome, "trading_strategy")
          /\ tried' = [tried EXCEPT ![Head(buy_candidates)] =
                                      IF outcome = "ok" THEN "no" ELSE "failed"]
          /\ IF outcome = "raised"
             THEN TsAbort
             ELSE /\ tsPc' = "buy"
                  /\ buy_candidates' = NextCandidates(outcome)
                  /\ UNCHANGED ts_rows
    /\ UNCHANGED <<prog, other_held, botVars, owned_tickers>>
    /\ UNCHANGED helperVars

\* Line 185: the rows of upbit.get_balances().
TsSellRead ==
    /\ prog = "trader"
    /\ tsPc = "sell"
    /\ \/ /\ ts_rows' = get_balances
          /\ tsPc' = "rows"
          /\ gw' = NoCalls
          /\ UNCHANGED buy_candidates
       \/ \* get_balances raises: line 237
          /\ TsAbort
          /\ gw' = Caught(NoCalls, "trading_strategy")
    /\ UNCHANGED <<prog, other_held>>
    /\ UNCHANGED helperVars
    /\ UNCHANGED <<gwVars, botVars>>
    /\ UNCHANGED owned_tickers
    /\ UNCHANGED tried

\* Lines 186-192: the rows the sell section leaves alone.
TsSkips(row) ==
    \/ row.currency = "KRW"
    \/ row.balance < DustThreshold
    \/ row.avg_buy_price = 0

\* Lines 185-235: one row of the sell section; after the last row the cycle
\* sleeps a second and the loop starts over.
TsSellRow ==
    /\ prog = "trader"
    /\ tsPc = "rows"
    /\ LET row == Head(ts_rows)
           rest == Tail(ts_rows)
           goOn == /\ ts_rows' = rest
                   /\ tsPc' = IF rest = <<>> THEN "balance" ELSE "rows"
                   /\ UNCHANGED buy_candidates
           asked == Asked(row)
       IN IF TsSkips(row)
          THEN /\ goOn
               /\ gw' = Skipped(row)
               /\ UNCHANGED gwVars
          ELSE \/ \* line 194: the candles are absent
                  /\ goOn
                  /\ gw' = asked
                  /\ UNCHANGED gwVars
               \/ \* lines 194-199: a fetch raises, or the price is None and
                  \* the comparison with it raises
                  /\ TsAbort
                  /\ gw' = Caught(asked, "trading_strategy")
                  /\ UNCHANGED gwVars
               \/ \E current_price \in Prices, market_trend \in Trends :
                     IF TsSellOutcome(market_trend, current_price,
                                      row.avg_buy_price) # "none"
                     THEN \E outcome \in Outcomes :
                             /\ SubmitSell(row, outcome, "trading_strategy")
                             /\ IF outcome = "raised" THEN TsAbort ELSE goOn
                     ELSE /\ goOn
                          /\ gw' = asked
                          /\ UNCHANGED gwVars
    /\ UNCHANGED <<prog, other_held, botVars, owned_tickers>>
    /\ UNCHANGED helperVars
    /\ UNCHANGED tried

(***************************************************************************)
(* The fetches.  The gateway's answers to the successive calls of one      *)
(* fetch are drawn beforehand: a candle sequence, None, or an exception.   *)
(***************************************************************************)
Candles == {"df1", "df2"}
Replies == Candles \cup {"None", "raise"}
FetchKinds == {"retry", "future", "sell", "trend"}

\* (A loop that makes one pass too few.)
retriesOneShort == MAX_RETRIES - 1

\* Line 54: retries=MAX_RETRIES, the default every caller uses.
retries == MAX_RETRIES

\* Lines 55-62: one pass of the loop of get_ohlcv_with_retry: the call, the
\* return of a frame that is not None, else the warning and the sleep.
FetchAttempt ==
    /\ prog = "fetch"
    /\ fetchKind = "retry"
    /\ fetchRet = "running"
    /\ attempt < retries
    /\ attempt' = attempt + 1
    /\ fetchRet' = IF replies[attempt + 1] \in Candles
                   THEN replies[attempt + 1]
                   ELSE "running"
    /\ UNCHANGED <<prog, other_held, gwVars, gw, botVars, tsVars, scanVars, supVars>>
    /\ UNCHANGED <<fetchKind, replies>>
    /\ UNCHANGED <<tried, indVars, cascVars>>

\* Lines 63-64: the loop is over: the warning, return None.
FetchExhausted ==
    /\ prog = "fetch"
    /\ fetchKind = "retry"
    /\ fetchRet = "running"
    /\ attempt >= retries
    /\ fetchRet' = "None"
    /\ UNCHANGED <<prog, other_held, gwVars, gw, botVars, tsVars, scanVars, supVars>>
    /\ UNCHANGED <<fetchKind, replies, attempt>>
    /\ UNCHANGED <<tried, indVars, cascVars>>

\* market_trend_trader.py line 127 with line 131 (pyupbit.get_ohlcv run by the
\* executor, its outcome taken with future.result()) and line 194 (the same
\* call made in the sell section): one call, nothing around it.
FetchDirect ==
    /\ prog = "fetch"
    /\ fetchKind \in {"future", "sell"}
    /\ fetchRet = "running"
    /\ attempt' = 1
    /\ fetchRet' = IF replies[1] = "raise" THEN "raised" ELSE replies[1]
    /\ UNCHANGED <<prog, other_held, gwVars, gw, botVars, tsVars, scanVars, supVars>>
    /\ UNCHANGED <<fetchKind, replies>>
    /\ UNCHANGED <<tried, indVars, cascVars>>

\* market_trend_trader.py lines 82-100: determine_market_trend makes the call
\* itself; absent data gives "sideways", data gives the label of its averages.
TrendFetch ==
    /\ prog = "fetch"
    /\ fetchKind = "trend"
    /\ fetchRet = "running"
    /\ attempt' = 1
    /\ \/ /\ replies[1] = "raise"
          /\ fetchRet' = "raised"
       \/ /\ replies[1] = "None"
          /\ fetchRet' = "sideways"
       \/ /\ replies[1] \in Candles
          /\ fetchRet' \in Trends
    /\ UNCHANGED <<prog, other_held, gwVars, gw, botVars, tsVars, scanVars, supVars>>
    /\ UNCHANGED <<fetchKind, replies>>
    /\ UNCHANGED <<tried, indVars, cascVars>>

(***************************************************************************)
(* The concurrent scans: a ThreadPoolExecutor, one future per asset, the   *)
(* futures taken in the order as_completed yields them.                    *)
(***************************************************************************)
ScanAssets == {"X", "Y", "Z"}
ScanKinds == {"volumes", "stage", "trader"}

\* How one asset goes: what its fetch gives, whether it is owned, whether the
\* evaluation of its frame raises, and whether the condition holds.
ScanCases ==
    [fetch : {"df", "None", "raise"}, owned : BOOLEAN, raises : BOOLEAN,
     holds : BOOLEAN]

\* The cases told apart by what the code can see: nothing is evaluated
\* without a frame, and only the trader looks at ownership.
ScanCaseOk(kind, c) ==
    /\ c.fetch # "df" => ~c.raises /\ ~c.holds
    /\ c.raises => ~c.holds
    /\ kind # "trader" => ~c.owned
    /\ kind = "volumes" => (c.holds <=> c.fetch = "df" /\ ~c.raises)

\* The body of the loop over as_completed for one future:
\*   CryptocurrencyTradingBot.py lines 95-104 (volumes), 115-125, 133-143,
\*   151-161 (the stages); market_trend_trader.py lines 129-159.
\* TRUE when the asset is added to the result. An exception of result() or of
\* the evaluation is caught by the except of the same iteration.
ScanKeeps(kind, c) ==
    IF c.fetch = "raise" THEN FALSE
    ELSE IF c.fetch = "None" THEN FALSE
    ELSE IF kind = "trader" /\ c.owned THEN FALSE
    ELSE IF c.raises THEN FALSE
    ELSE kind = "volumes" \/ c.holds

\* (A loop without the try of its body: an exception ends the collecting.)
ScanRestNoTry(a) ==
    IF scanCase[a].fetch = "raise" \/ scanCase[a].raises
    THEN {}
    ELSE scanPending \ {a}

\* What is left to collect after the future of an asset was handled: the
\* except of the iteration (lines 103-104, 158-159) lets the loop go on.
ScanRest(a) == scanPending \ {a}

ScanCollect(a) ==
    /\ prog = "scan"
    /\ a \in scanPending
    /\ scanPending' = ScanRest(a)
    /\ scanResult' = IF ScanKeeps(scanKind, scanCase[a])
                     THEN Append(scanResult, a)
                     ELSE scanResult
    /\ UNCHANGED <<prog, other_held, gwVars, gw, botVars, tsVars, fetchVars, supVars>>
    /\ UNCHANGED <<scanKind, scanCase>>
    /\ UNCHANGED <<tried, indVars, cascVars>>

(***************************************************************************)
(* The supervision of the loops.  Both programs run, each for itself; of   *)
(* a loop only its thread is modelled: alive, or ended.                    *)
(***************************************************************************)
MaxThreads == 4             \* the trader starts at most MaxThreads threads
BotThreads == {"buy_thread", "sell_increase_thread", "sell_decrease_thread"}

\* A loop of the bot logs and sets message_printed (lines 79, 172, 230, ...).
BotThreadLogs(t) ==
    /\ prog = "sup"
    /\ botAlive[t]
    /\ message_printed' = TRUE
    /\ UNCHANGED <<prog, other_held, gwVars, gw, botVars, tsVars, fetchVars, scanVars>>
    /\ UNCHANGED <<botAlive, botMainPc, tsThreads, tsMainPc>>
    /\ UNCHANGED <<tried, indVars, cascVars>>

\* A loop of the bot ends: something that `except Exception` does not catch.
BotThreadEnds(t) ==
    /\ prog = "sup"
    /\ botAlive[t]
    /\ botAlive' = [botAlive EXCEPT ![t] = FALSE]
    /\ UNCHANGED <<prog, other_held, gwVars, gw, botVars, tsVars, fetchVars, scanVars>>
    /\ UNCHANGED <<message_printed, botMainPc, tsThreads, tsMainPc>>
    /\ UNCHANGED <<tried, indVars, cascVars>>

\* CryptocurrencyTradingBot.py line 331: time.sleep(1).
BotMainSleep ==
    /\ prog = "sup"
    /\ botMainPc = "sleep"
    /\ botMainPc' = "check"
    /\ UNCHANGED <<prog, other_held, gwVars, gw, botVars, tsVars, fetchVars, scanVars>>
    /\ UNCHANGED <<botAlive, message_printed, tsThreads, tsMainPc>>
    /\ UNCHANGED <<tried, indVars, cascVars>>

\* CryptocurrencyTradingBot.py lines 332-334: the message, the flag reset.
BotMainCheck ==
    /\ prog = "sup"
    /\ botMainPc = "check"
    /\ botMainPc' = "sleep"
    /\ message_printed' = FALSE
    /\ UNCHANGED <<prog, other_held, gwVars, gw, botVars, tsVars, fetchVars, scanVars>>
    /\ UNCHANGED <<botAlive, tsThreads, tsMainPc>>
    /\ UNCHANGED <<tried, indVars, cascVars>>

\* (A main that keeps asking the thread it started first.)
first_thread_is_alive == tsThreads[1]

\* main's buy_thread: the thread started last.
buy_thread_is_alive == tsThreads[Len(tsThreads)]

\* A thread of trading_strategy ends. (The bound: a thread that could not be
\* replaced within MaxThreads does not end.)
TsThreadEnds ==
    /\ prog = "sup"
    /\ \E i \in DOMAIN tsThreads :
          /\ tsThreads[i]
          /\ Len(tsThreads) < MaxThreads
          /\ tsThreads' = [tsThreads EXCEPT ![i] = FALSE]
    /\ UNCHANGED <<prog, other_held, gwVars, gw, botVars, tsVars, fetchVars, scanVars>>
    /\ UNCHANGED <<botAlive, message_printed, botMainPc, tsMainPc>>
    /\ UNCHANGED <<tried, indVars, cascVars>>

\* market_trend_trader.py lines 246-249: a thread that is not alive is
\* replaced by a new one, started.
TsMainCheck ==
    /\ prog = "sup"
    /\ tsMainPc = "check"
    /\ tsThreads' = IF buy_thread_is_alive THEN tsThreads
                    ELSE Append(tsThreads, TRUE)
    /\ tsMainPc' = "sleep"
    /\ UNCHANGED <<prog, other_held, gwVars, gw, botVars, tsVars, fetchVars, scanVars>>
    /\ UNCHANGED <<botAlive, message_printed, botMainPc>>
    /\ UNCHANGED <<tried, indVars, cascVars>>

\* market_trend_trader.py line 250: time.sleep(5).
TsMainSleep ==
    /\ prog = "sup"
    /\ tsMainPc = "sleep"
    /\ tsMainPc' = "check"
    /\ UNCHANGED <<prog, other_held, gwVars, gw, botVars, tsVars, fetchVars, scanVars>>
    /\ UNCHANGED <<botAlive, message_printed, botMainPc, tsThreads>>
    /\ UNCHANGED <<tried, indVars, cascVars>>

(***************************************************************************)
(* The indicators of market_trend_trader.py.  A candle is its low, close   *)
(* and high, whole numbers (KRW prices), so that the sums and the          *)
(* comparisons of the averages are exact in the source's floating point    *)
(* too.  A value is a fraction n/d, NaN, a truth value or a label; a call  *)
(* returns a value or a pair of values, or raises.                         *)
(***************************************************************************)
Num(n, d) == [kind |-> "num", n |-> n, d |-> d, s |-> ""]

NaN == [kind |-> "nan", n |-> 0, d |-> 1, s |-> ""]

Bool(b) == [kind |-> "bool", n |-> 0, d |-> 1, s |-> IF b THEN "True" ELSE "False"]

Label(l) == [kind |-> "label", n |-> 0, d |-> 1, s |-> l]

Pending == [tag |-> "pending", a |-> NaN, b |-> NaN]

Raised == [tag |-> "raised", a |-> NaN, b |-> NaN]

Returned(v) == [tag |-> "returned", a |-> v, b |-> NaN]

ReturnedPair(v, w) == [tag |-> "returned", a |-> v, b |-> w]

\* The comparisons of floats: with a NaN on either side each of them is False.
Lt(x, y) == x.kind = "num" /\ y.kind = "num" /\ x.n * y.d < y.n * x.d

Gt(x, y) == Lt(y, x)

Le(x, y) == x.kind = "num" /\ y.kind = "num" /\ x.n * y.d <= y.n * x.d

RECURSIVE SumClose(_, _, _)
SumClose(df, i, j) == IF i > j THEN 0 ELSE df[i].close + SumClose(df, i + 1, j)

\* data['close'].rolling(window).mean() at row i (rows counted from 1): NaN
\* until the window is full.
RollingMean(df, window, i) ==
    IF i < window THEN NaN ELSE Num(SumClose(df, i - window + 1, i), window)

\* Lines 68-71. iloc[-2] of a column of fewer than two rows raises IndexError.
is_golden_cross(df, short_period, long_period) ==
    LET n == Len(df)
    IN IF n < 2 THEN Raised
       ELSE Returned(Bool(
               /\ Lt(RollingMean(df, short_period, n - 1),
                     RollingMean(df, long_period, n - 1))
               /\ Gt(RollingMean(df, short_period, n),
                     RollingMean(df, long_period, n))))

\* Line 60: data['close'].diff(); lines 61-62: the NaN of the first row is
\* neither above nor below 0 and counts as 0 on both sides.
Delta(df, i) == IF i = 1 THEN 0 ELSE df[i].close - df[i - 1].close

RECURSIVE SumGain(_, _, _)
SumGain(df, i, j) ==
    IF i > j THEN 0
    ELSE (IF Delta(df, i) > 0 THEN Delta(df, i) ELSE 0) + SumGain(df, i + 1, j)

RECURSIVE SumLoss(_, _, _)
SumLoss(df, i, j) ==
    IF i > j THEN 0
    ELSE (IF Delta(df, i) < 0 THEN 0 - Delta(df, i) ELSE 0) + SumLoss(df, i + 1, j)

\* Lines 59-65. iloc[-1] of an empty column raises IndexError. With no loss in
\* the window rs is gain / 0: inf with a gain, so that rsi is 100 - 100/inf =
\* 100, and NaN without one. Otherwise 100 - 100 / (1 + G/L) = 100 G / (G + L).
calculate_rsi(df, period) ==
    LET n == Len(df)
        gain == SumGain(df, n - period + 1, n)
        loss == SumLoss(df, n - period + 1, n)
    IN IF n = 0 THEN Raised
       ELSE IF n < period THEN Returned(NaN)
       ELSE IF loss = 0
       THEN (IF gain = 0 THEN Returned(NaN) ELSE Returned(Num(100, 1)))
       ELSE Returned(Num(100 * gain, gain + loss))

RECURSIVE MinLow(_, _, _)
MinLow(df, i, j) ==
    IF i = j THEN df[i].low
    ELSE LET m == MinLow(df, i + 1, j)
         IN IF df[i].low < m THEN df[i].low ELSE m

RECURSIVE MaxHigh(_, _, _)
MaxHigh(df, i, j) ==
    IF i = j THEN df[i].high
    ELSE LET m == MaxHigh(df, i + 1, j)
         IN IF df[i].high > m THEN df[i].high ELSE m

\* Line 77: k_value at row i: NaN until the window is full, and 0/0 = NaN when
\* the highest high of the window is its lowest low.
KValue(df, k_period, i) ==
    IF i < k_period THEN NaN
    ELSE LET low_min == MinLow(df, i - k_period + 1, i)
             high_max == MaxHigh(df, i - k_period + 1, i)
         IN IF high_max = low_min THEN NaN
            ELSE Num(100 * (df[i].close - low_min), high_max - low_min)

RECURSIVE SumK(_, _, _, _)
SumK(df, k_period, i, j) ==
    IF i > j THEN Num(0, 1)
    ELSE LET x == KValue(df, k_period, i)
             y == SumK(df, k_period, i + 1, j)
         IN IF x.kind = "nan" \/ y.kind = "nan" THEN NaN
            ELSE Num(x.n * y.d + y.n * x.d, x.d * y.d)

\* Line 78: d_value at row i: the mean of the last d_period values of k, NaN
\* when one of them is.
DValue(df, k_period, d_period, i) ==
    IF i < d_period THEN NaN
    ELSE LET sum == SumK(df, k_period, i - d_period + 1, i)
         IN IF sum.kind = "nan" THEN NaN ELSE Num(sum.n, sum.d * d_period)

\* Lines 74-79. iloc[-1] of an empty column raises IndexError.
calculate_stochastic(df, k_period, d_period) ==
    LET n == Len(df)
    IN IF n = 0 THEN Raised
       ELSE ReturnedPair(KValue(df, k_period, n), DValue(df, k_period, d_period, n))

\* (A classifier that takes equal averages for a rise.)
determine_market_trend_ge(absent, df) ==
    IF absent \/ Len(df) = 0 THEN "sideways"
    ELSE LET short_ma == RollingMean(df, 12, Len(df))
             long_ma == RollingMean(df, 26, Len(df))
         IN IF Le(long_ma, short_ma) THEN "bull"
            ELSE IF Lt(short_ma, long_ma) THEN "bear"
            ELSE "sideways"

\* Lines 85-100 of determine_market_trend, after the fetch of line 83: absent
\* or empty data is "sideways"; a NaN average is neither above nor below the
\* other, which is "sideways" too.
determine_market_trend(absent, df) ==
    IF absent \/ Len(df) = 0 THEN "sideways"
    ELSE LET short_period == 12
             long_period == 26
             short_ma == RollingMean(df, short_period, Len(df))
             long_ma == RollingMean(df, long_period, Len(df))
         IN IF Gt(short_ma, long_ma) THEN "bull"
            ELSE IF Lt(short_ma, long_ma) THEN "bear"
            ELSE "sideways"

\* Lines 139-156: the buy condition of a ticker that is not owned and has
\* candles. An exception of an indicator is caught at line 158: no candidate.
Nominated(market_trend, df) ==
    LET rsi == calculate_rsi(df, 14)
        st == calculate_stochastic(df, 14, 3)
        recent_rsi == rsi.a
        k_value == st.a
        d_value == st.b
        Cross(short_period, long_period) ==
            is_golden_cross(df, short_period, long_period) = Returned(Bool(TRUE))
    IN IF rsi.tag = "raised" \/ st.tag = "raised" THEN FALSE
       ELSE CASE market_trend = "bull" ->
                    /\ Le(Num(50, 1), recent_rsi)
                    /\ Lt(recent_rsi, Num(70, 1))
                    /\ Cross(5, 15)
                    /\ Gt(k_value, d_value)
              [] market_trend = "bear" ->
                    /\ Le(Num(30, 1), recent_rsi)
                    /\ Le(recent_rsi, Num(40, 1))
                    /\ Cross(3, 10)
              [] OTHER ->
                    /\ Lt(recent_rsi, Num(40, 1))
                    /\ Lt(k_value, Num(20, 1))
                    /\ Gt(k_value, d_value)

\* The candles of the model: closes of 100 and 101, flat or one wide.
MaxShort == 5               \* every sequence of up to MaxShort candles is tried
MaxLong == 27               \* the longest sequence tried
Closes == {100, 101}
Spreads == {0, 1}
CandleSet ==
    {[low |-> c - s, close |-> c, high |-> c + s] : c \in Closes, s \in Spreads}

Flat(c) == [low |-> c, close |-> c, high |-> c]

ShortData == UNION {[1..n -> CandleSet] : n \in 0..MaxShort}

\* Longer sequences: n1 flat candles at one close, then n2 at another.
LongData ==
    {[i \in 1..(t[2] + t[4]) |-> IF i <= t[2] THEN Flat(t[1]) ELSE Flat(t[3])] :
        t \in {u \in Closes \X (0..MaxLong) \X Closes \X (0..MaxLong) :
                  u[2] + u[4] > MaxShort /\ u[2] + u[4] <= MaxLong}}

\* A slide: n flat candles, each one lower than the one before, and a last
\* candle up closes higher than the lowest.
SlideData ==
    {[i \in 1..(n + 1) |-> IF i <= n THEN Flat(100 + n - i) ELSE Flat(100 + up)] :
        n \in (MaxLong - 3)..(MaxLong - 1), up \in 0..2}

IndKinds == {"rsi", "cross", "stochastic", "trend", "nominate", "sell"}

NoArgs == [period |-> 0, long |-> 0, trend |-> "none", price |-> 0, absent |-> FALSE]

\* The arguments tried: the periods of the calls of the source (14; 5 and 15;
\* 14 and 3) and smaller ones that the short sequences can fill.
ArgsOf(kind) ==
    CASE kind = "rsi" -> {[NoArgs EXCEPT !.period = p] : p \in {2, 14}}
      [] kind = "cross" ->
            {[NoArgs EXCEPT !.period = t[1], !.long = t[2]] :
                t \in {<<1, 2>>, <<2, 3>>, <<5, 15>>}}
      [] kind = "stochastic" ->
            {[NoArgs EXCEPT !.period = t[1], !.long = t[2]] :
                t \in {<<2, 2>>, <<14, 3>>}}
      [] kind = "trend" -> {[NoArgs EXCEPT !.absent = b] : b \in BOOLEAN}
      [] kind = "nominate" -> {[NoArgs EXCEPT !.trend = t] : t \in Trends}
      [] OTHER ->
            {[NoArgs EXCEPT !.trend = t, !.price = p] :
                t \in Trends, p \in EvalPrices}

DataOf(kind) ==
    IF kind = "sell" THEN {<<>>} ELSE ShortData \cup LongData \cup SlideData

IndFrame ==
    /\ UNCHANGED <<prog, other_held, gwVars, gw, tried, botVars, tsVars>>
    /\ UNCHANGED <<fetchVars, scanVars, supVars, cascVars>>
    /\ UNCHANGED <<data, indKind, indArgs>>

CallRsi ==
    /\ prog = "ind"
    /\ indKind = "rsi"
    /\ indRet = Pending
    /\ indRet' = calculate_rsi(data, indArgs.period)
    /\ IndFrame

CallGoldenCross ==
    /\ prog = "ind"
    /\ indKind = "cross"
    /\ indRet = Pending
    /\ indRet' = is_golden_cross(data, indArgs.period, indArgs.long)
    /\ IndFrame

CallStochastic ==
    /\ prog = "ind"
    /\ indKind = "stochastic"
    /\ indRet = Pending
    /\ indRet' = calculate_stochastic(data, indArgs.period, indArgs.long)
    /\ IndFrame

CallTrend ==
    /\ prog = "ind"
    /\ indKind = "trend"
    /\ indRet = Pending
    /\ indRet' = Returned(Label(determine_market_trend(indArgs.absent, data)))
    /\ IndFrame

\* Lines 139-156 for one ticker, the trend being what line 136 gave.
CallNominate ==
    /\ prog = "ind"
    /\ indKind = "nominate"
    /\ indRet = Pending
    /\ indRet' = Returned(Bool(Nominated(indArgs.trend, data)))
    /\ IndFrame

\* Lines 203-231 for one position bought at AvgPrice.
CallSellOutcome ==
    /\ prog = "ind"
    /\ indKind = "sell"
    /\ indRet = Pending
    /\ indRet' = Returned(Label(TsSellOutcome(indArgs.trend, indArgs.price, AvgPrice)))
    /\ IndFrame

InitGateway ==
    /\ other_held \in (IF prog = "bot" THEN {OtherHeld} ELSE {OtherHeld - 1, OtherHeld})
    /\ krw \in {5000, 5500}
    /\ ledger \in [Assets -> InitRows]
    /\ pending = [a \in Assets |-> FALSE]
    /\ gw = NoCalls
    /\ tried = [a \in Assets |-> "no"]

InitBot ==
    /\ sell_executed = FALSE
    /\ buyPc = "balance"
    /\ filtered_tickers = {}
    /\ sellPc = [t \in Threads |-> "balances"]
    /\ balances = [t \in Threads |-> <<>>]
    /\ freed = FALSE

InitTrader ==
    /\ tsPc = "balance"
    /\ buy_candidates = <<>>
    /\ ts_rows = <<>>
    /\ owned_tickers = {}

\* No fetch, no scan, the threads as the programs start them (lines 319-327
\* of the bot, 242-243 of the trader).
IdleFetch ==
    /\ fetchKind = "retry"
    /\ replies = [i \in 1..MAX_RETRIES |-> "None"]
    /\ attempt = 0
    /\ fetchRet = "running"

IdleScan ==
    /\ scanKind = "stage"
    /\ scanCase = [a \in ScanAssets |->
                      [fetch |-> "None", owned |-> FALSE, raises |-> FALSE,
                       holds |-> FALSE]]
    /\ scanPending = {}
    /\ scanResult = <<>>

InitSup ==
    /\ botAlive = [t \in BotThreads |-> TRUE]
    /\ message_printed = FALSE
    /\ botMainPc = "sleep"
    /\ tsThreads = <<TRUE>>
    /\ tsMainPc = "check"

(***************************************************************************)
(* The filter cascade of check_and_buy, lines 88-176, stage by stage.  A   *)
(* ticker is a number; of a ticker the market holds whether it has daily   *)
(* candles and their latest volume, the two latest closes of each of the   *)
(* finer intervals, and whether the ticker is in the cached valid_tickers. *)
(* Closes are whole numbers, so that the quotients of lines 119, 137 and   *)
(* 155 are the floats nearest to the exact ratios, as the literals are.    *)
(***************************************************************************)
TopN == 35                  \* CryptocurrencyTradingBot.py:107  [:35]
FillerCount == 34           \* tickers of fixed, distinct, middling volume
Fillers == 1..FillerCount
Studied == {FillerCount + 1, FillerCount + 2}
Tickers == Fillers \cup Studied

\* The cases of a studied ticker: no daily candles, a volume below or above
\* every filler's; a 5-minute rise of exactly 1% or of 0.9%; a 90-second rise
\* of exactly 0.35% or just less; a last close unchanged, lower by exactly
\* 0.075%, or lower by 0.1%.
Profiles ==
    [vol : {[day |-> FALSE, volume |-> 0], [day |-> TRUE, volume |-> 50],
            [day |-> TRUE, volume |-> 200]},
     m5 : {<<100, 101>>, <<1000, 1009>>},
     s90 : {<<100000, 100350>>, <<100000, 100349>>},
     s1 : {<<40000, 40000>>, <<40000, 39970>>, <<40000, 39960>>},
     valid : BOOLEAN]

\* A filler has daily candles and does not rise.
FillerProfile(t) ==
    [vol |-> [day |-> TRUE, volume |-> 100 + t], m5 |-> <<1000, 1009>>,
     s90 |-> <<100000, 100349>>, s1 |-> <<40000, 40000>>, valid |-> TRUE]

\* Lines 119 / 137: (close[-1] - close[-2]) / close[-2] >= num / den.
RisesAtLeast(closes, num, den) ==
    (closes[2] - closes[1]) * den >= num * closes[1]

\* Line 155: (close[-1] - close[-2]) / close[-2] > -0.00075.
AboveGuard(closes) ==
    (closes[2] - closes[1]) * 100000 > (0 - 75) * closes[1]

\* Line 107: sorted(volumes, key=volumes.get, reverse=True)[:35]: the 35
\* tickers of the highest volume. The sort keeps tickers of equal volume in
\* the order of the dict, which is the order the futures completed in: which
\* of them make the cut is any choice.
TopSets(vs) ==
    LET vol(t) == market[t].vol.volume
        size == IF Cardinality(vs) < TopN THEN Cardinality(vs) ELSE TopN
        Sure == {t \in vs : Cardinality({u \in vs \ {t} : vol(u) >= vol(t)}) < size}
        Maybe == {t \in vs : Cardinality({u \in vs : vol(u) > vol(t)}) < size} \ Sure
    IN {Sure \cup C : C \in {D \in SUBSET Maybe :
                                Cardinality(D) = size - Cardinality(Sure)}}

CascFrame ==
    /\ UNCHANGED <<prog, other_held, gwVars, gw, tried, botVars, tsVars>>
    /\ UNCHANGED <<fetchVars, scanVars, supVars, indVars>>
    /\ UNCHANGED market

\* Lines 89-104: the volume of every ticker that has daily candles.
CascVolumes ==
    /\ prog = "cascade"
    /\ cascPc = "volumes"
    /\ volumes' = {t \in Tickers : market[t].vol.day}
    /\ cascPc' = "top"
    /\ UNCHANGED <<top_35_tickers, rising_1_percent, rising_0_35_percent,
                   guarded, final_tickers, selected>>
    /\ CascFrame

\* Line 107.
CascTop ==
    /\ prog = "cascade"
    /\ cascPc = "top"
    /\ top_35_tickers' \in TopSets(volumes)
    /\ cascPc' = "rise1"
    /\ UNCHANGED <<volumes, rising_1_percent, rising_0_35_percent,
                   guarded, final_tickers, selected>>
    /\ CascFrame

\* Lines 110-125: of the top 35, those that rose 1% in five minutes.
CascRise1 ==
    /\ prog = "cascade"
    /\ cascPc = "rise1"
    /\ rising_1_percent' = {t \in top_35_tickers : RisesAtLeast(market[t].m5, 1, 100)}
    /\ cascPc' = "rise035"
    /\ UNCHANGED <<volumes, top_35_tickers, rising_0_35_percent,
                   guarded, final_tickers, selected>>
    /\ CascFrame

\* (A stage that looks at the top 35 again instead of at the stage before.)
Rise035InputTop == top_35_tickers

\* Line 130-131: the tickers the third stage fetches.
Rise035Input == rising_1_percent

\* Lines 128-143: of those, the ones that rose 0.35% in 90 seconds.
CascRise035 ==
    /\ prog = "cascade"
    /\ cascPc = "rise035"
    /\ rising_0_35_percent' =
          {t \in Rise035Input : RisesAtLeast(market[t].s90, 35, 10000)}
    /\ cascPc' = "guard"
    /\ UNCHANGED <<volumes, top_35_tickers, rising_1_percent,
                   guarded, final_tickers, selected>>
    /\ CascFrame

\* Lines 146-161: of those, the ones whose last close is above the guard.
CascGuard ==
    /\ prog = "cascade"
    /\ cascPc = "guard"
    /\ guarded' = {t \in rising_0_35_percent : AboveGuard(market[t].s1)}
    /\ cascPc' = "valid"
    /\ UNCHANGED <<volumes, top_35_tickers, rising_1_percent,
                   rising_0_35_percent, final_tickers, selected>>
    /\ CascFrame

\* Line 164: of those, the valid tickers.
CascValid ==
    /\ prog = "cascade"
    /\ cascPc = "valid"
    /\ final_tickers' = {t \in guarded : market[t].valid}
    /\ cascPc' = "buy"
    /\ UNCHANGED <<volumes, top_35_tickers, rising_1_percent,
                   rising_0_35_percent, guarded, selected>>
    /\ CascFrame

\* Lines 167-176: one of them, chosen at random, is bought; none, nothing.
CascBuy ==
    /\ prog = "cascade"
    /\ cascPc = "buy"
    /\ IF final_tickers # {}
       THEN \E selected_ticker \in final_tickers :
               selected' = Append(selected, selected_ticker)
       ELSE UNCHANGED selected
    /\ cascPc' = "done"
    /\ UNCHANGED <<volumes, top_35_tickers, rising_1_percent,
                   rising_0_35_percent, guarded, final_tickers>>
    /\ CascFrame

IdleCasc ==
    /\ market = [t \in Tickers |-> FillerProfile(t)]
    /\ cascPc = "done"
    /\ volumes = {}
    /\ top_35_tickers = {}
    /\ rising_1_percent = {}
    /\ rising_0_35_percent = {}
    /\ guarded = {}
    /\ final_tickers = {}
    /\ selected = <<>>

IdleInd ==
    /\ data = <<>>
    /\ indKind = "rsi"
    /\ indArgs = NoArgs
    /\ indRet = Pending

IdleGateway ==
    /\ other_held = OtherHeld
    /\ krw = 0
    /\ ledger = [a \in Assets |-> EmptyRow]
    /\ pending = [a \in Assets |-> FALSE]
    /\ gw = NoCalls
    /\ tried = [a \in Assets |-> "no"]

\* One of the two programs runs; the loops of the other never start.
Init ==
    /\ prog \in {"bot", "trader"}
    /\ InitGateway
    /\ InitBot
    /\ InitTrader
    /\ IdleFetch
    /\ IdleScan
    /\ InitSup
    /\ IdleInd
    /\ IdleCasc

\* One fetch, against every sequence of answers of the gateway.
InitFetch ==
    /\ prog = "fetch"
    /\ fetchKind \in FetchKinds
    /\ replies \in [1..MAX_RETRIES -> Replies]
    /\ attempt = 0
    /\ fetchRet = "running"
    /\ IdleGateway
    /\ InitBot
    /\ InitTrader
    /\ IdleScan
    /\ InitSup
    /\ IdleInd
    /\ IdleCasc

\* One scan, over every assignment of cases to the assets.
InitScan ==
    /\ prog = "scan"
    /\ scanKind \in ScanKinds
    /\ scanCase \in [ScanAssets -> ScanCases]
    /\ \A a \in ScanAssets : ScanCaseOk(scanKind, scanCase[a])
    /\ scanPending = ScanAssets
    /\ scanResult = <<>>
    /\ IdleGateway
    /\ InitBot
    /\ InitTrader
    /\ IdleFetch
    /\ InitSup
    /\ IdleInd
    /\ IdleCasc

InitSupervision ==
    /\ prog = "sup"
    /\ InitSup
    /\ IdleGateway
    /\ InitBot
    /\ InitTrader
    /\ IdleFetch
    /\ IdleScan
    /\ IdleInd
    /\ IdleCasc

Environment ==
    \/ \E a \in Assets : BuyFill(a)
    \/ \E a \in Assets : SellFill(a)
    \/ Deposit
    \/ Withdraw

NextBot ==
    \/ BuyReadBalance
    \/ BuyWait
    \/ BuyClear
    \/ BuyScan
    \/ BuyOrder
    \/ \E t \in Threads : SellReadBalances(t)
    \/ \E t \in Threads : SellRow(t)

NextTrader ==
    \/ TsReadBalance
    \/ TsSleep
    \/ TsScan
    \/ TsBuyNext
    \/ TsBuyBalance
    \/ TsBuyOrder
    \/ TsSellRead
    \/ TsSellRow

Next ==
    \/ Environment
    \/ NextBot
    \/ NextTrader

Spec == Init /\ [][Next]_vars

NextFetch ==
    \/ FetchAttempt
    \/ FetchExhausted
    \/ FetchDirect
    \/ TrendFetch

SpecFetch == InitFetch /\ [][NextFetch]_vars

NextScan == \E a \in ScanAssets : ScanCollect(a)

SpecScan == InitScan /\ [][NextScan]_vars

\* One call of an indicator, over the sequences and the arguments above.
InitInd ==
    /\ prog = "ind"
    /\ indKind \in IndKinds
    /\ data \in DataOf(indKind)
    /\ indArgs \in ArgsOf(indKind)
    /\ indRet = Pending
    /\ IdleCasc
    /\ IdleGateway
    /\ InitBot
    /\ InitTrader
    /\ IdleFetch
    /\ IdleScan
    /\ InitSup

NextInd ==
    \/ CallRsi
    \/ CallGoldenCross
    \/ CallStochastic
    \/ CallTrend
    \/ CallNominate
    \/ CallSellOutcome

SpecInd == InitInd /\ [][NextInd]_vars

\* One cycle of the scan of check_and_buy, over the cases of the studied
\* tickers.
InitCascade ==
    /\ prog = "cascade"
    /\ \E p \in [Studied -> Profiles] :
          market = [t \in Tickers |-> IF t \in Fillers THEN FillerProfile(t) ELSE p[t]]
    /\ cascPc = "volumes"
    /\ volumes = {}
    /\ top_35_tickers = {}
    /\ rising_1_percent = {}
    /\ rising_0_35_percent = {}
    /\ guarded = {}
    /\ final_tickers = {}
    /\ selected = <<>>
    /\ IdleGateway
    /\ InitBot
    /\ InitTrader
    /\ IdleFetch
    /\ IdleScan
    /\ InitSup
    /\ IdleInd

NextCascade ==
    \/ CascVolumes
    \/ CascTop
    \/ CascRise1
    \/ CascRise035
    \/ CascGuard
    \/ CascValid
    \/ CascBuy

SpecCascade == InitCascade /\ [][NextCascade]_vars

NextSup ==
    \/ \E t \in BotThreads : BotThreadLogs(t)
    \/ \E t \in BotThreads : BotThreadEnds(t)
    \/ BotMainSleep
    \/ BotMainCheck
    \/ TsThreadEnds
    \/ TsMainCheck
    \/ TsMainSleep

SpecSup == InitSupervision /\ [][NextSup]_vars

\* The main loops are threads of their own that nothing blocks: they keep
\* taking their steps.
FairSpecSup ==
    /\ SpecSup
    /\ WF_vars(BotMainSleep)
    /\ WF_vars(BotMainCheck)
    /\ WF_vars(TsMainCheck)
    /\ WF_vars(TsMainSleep)

\* The loops of the bot are threads that nothing but sell_executed.wait()
\* blocks: each keeps taking its steps, and the balance is not refused for
\* ever.
FairSpec ==
    /\ Spec
    /\ WF_vars(BuyReadBalance /\ gw'.caught = "none")
    /\ WF_vars(BuyWait)
    /\ WF_vars(BuyClear)
    /\ WF_vars(BuyScan)
    /\ WF_vars(BuyOrder)
    /\ \A t \in Threads : WF_vars(SellReadBalances(t))
    /\ \A t \in Threads : WF_vars(SellRow(t))

(***************************************************************************)
(* The properties.                                                         *)
(***************************************************************************)
Range(s) == {s[i] : i \in DOMAIN s}

\* C1: whenever a buy order is submitted, the gateway's KRW balance at that
\* moment is at least the 5500 of one trade.
C1_BuyOnlyWithBalance ==
    \A i \in DOMAIN gw.orders :
        gw.orders[i].side = "buy" => gw.orders[i].krw >= OrderKrw

\* C2: no order is submitted for an asset while an earlier order for the same
\* asset is in flight.
C2_NoOrderWhileInFlight ==
    \A i \in DOMAIN gw.orders : ~gw.orders[i].inflight

\* C3: a buy loop that saw a balance below 5500 stays blocked, reading nothing
\* further at the gateway, for as long as the signal is not set.
C3_BlockedUntilSignalled ==
    [][ /\ (buyPc = "wait" /\ ~sell_executed) => buyPc' = "wait"
        /\ (tsPc = "sleep" /\ ~sell_executed) => tsPc' = "sleep" ]_vars

\* C4: check_and_buy returns from sell_executed.wait() only when a sell has
\* succeeded since it saw the insufficient balance.
C4_WokenOnlyByLaterSell == buyPc = "clear" => freed

\* C5: get_ohlcv_with_retry calls the gateway at most 5 times, returns the
\* frame of the first call that gives one, calling no further, and returns
\* None exactly when none of the 5 calls gave a frame.
FirstCandle ==
    LET S == {i \in 1..MAX_RETRIES : replies[i] \in Candles}
    IN IF S = {} THEN 0 ELSE CHOOSE i \in S : \A j \in S : i <= j

C5_RetryContract ==
    fetchKind = "retry" =>
        /\ attempt <= MAX_RETRIES
        /\ fetchRet \in Candles \cup {"None", "running"}
        /\ fetchRet \in Candles =>
              /\ FirstCandle # 0
              /\ attempt = FirstCandle
              /\ fetchRet = replies[FirstCandle]
        /\ fetchRet = "None" => FirstCandle = 0 /\ attempt = MAX_RETRIES
        /\ fetchRet = "running" => \A i \in 1..attempt : replies[i] \notin Candles

\* C5's case: a frame returned by the third call, after an exception and a None.
C5_Witness ==
    /\ prog = "fetch"
    /\ fetchKind = "retry"
    /\ replies[1] = "raise"
    /\ replies[2] = "None"
    /\ attempt = 3
    /\ fetchRet \in Candles

\* C6: no fetch of candles hands a failure of the gateway to its caller.
C6_FetchNeverRaises == fetchRet # "raised"

\* C7: a scan's result holds no asset whose fetch was absent or failed or
\* whose evaluation raised, and, once every future is collected, holds every
\* asset whose fetch gave a frame and whose condition held.
C7_ScanIsolatesFailures ==
    /\ \A a \in Range(scanResult) :
          scanCase[a].fetch = "df" /\ ~scanCase[a].raises
    /\ scanPending = {} =>
          \A a \in ScanAssets :
              ( /\ scanCase[a].fetch = "df"
                /\ scanCase[a].holds
                /\ ~scanCase[a].raises
                /\ ~scanCase[a].owned ) => a \in Range(scanResult)

\* C7's case: the scan is over; one asset's fetch raised, another's evaluation
\* raised, and a third is in the result.
C7_Witness ==
    /\ prog = "scan"
    /\ scanPending = {}
    /\ \E a, b, c \in ScanAssets :
          /\ scanCase[a].fetch = "raise"
          /\ scanCase[b].raises
          /\ scanResult = <<c>>
          /\ scanCase[c].holds

\* C8: no buy is submitted when the account holds the cap of 13 positions,
\* so that the positions held never come to exceed 13.
C8_NoBuyAtCap ==
    \A i \in DOMAIN gw.orders :
        gw.orders[i].side = "buy" => gw.orders[i].held < MaxHoldings

\* C9: a sell pass asks no price and submits no sell for a row of its
\* snapshot whose quantity is below 0.0001 or whose avg_buy_price is zero.
C9_NoDustNoZeroCost ==
    /\ \A i \in DOMAIN gw.priced :
          /\ gw.priced[i].balance >= DustThreshold
          /\ gw.priced[i].avg_buy_price # 0
    /\ \A i \in DOMAIN gw.orders :
          gw.orders[i].side = "sell" =>
              /\ gw.priced # <<>>
              /\ gw.priced[1].currency = gw.orders[i].ticker

\* C9's case: a sell pass has just passed over a row of dust that has a cost
\* basis.
C9_Witness ==
    \E i \in DOMAIN gw.skipped :
        /\ gw.skipped[i].currency \in Assets
        /\ gw.skipped[i].balance > 0
        /\ gw.skipped[i].balance < DustThreshold
        /\ gw.skipped[i].avg_buy_price # 0

\* C10: a loop thread that has ended is in the end found by the supervising
\* loop and replaced by a running one.
C10_EndedLoopIsRestarted ==
    /\ \A t \in BotThreads : (~botAlive[t]) ~> botAlive[t]
    /\ (~buy_thread_is_alive) ~> buy_thread_is_alive

\* C11: an exception that reaches the outer except of a loop (check_and_buy,
\* the two sell loops, trading_strategy) leaves that loop at the start of a
\* new cycle; no loop is ever anywhere but at a position of its cycle.
BuyPositions == {"balance", "wait", "clear", "scan", "order"}

SellPositions == {"balances", "rows"}

TsPositions == {"balance", "sleep", "scan", "buy", "buy_balance", "buy_order",
                "sell", "rows"}

C11_CaughtAtLoopBoundary ==
    /\ buyPc \in BuyPositions
    /\ tsPc \in TsPositions
    /\ \A t \in Threads : sellPc[t] \in SellPositions
    /\ gw.caught = "check_and_buy" => buyPc = "balance" /\ filtered_tickers = {}
    /\ gw.caught = "trading_strategy" =>
          tsPc = "balance" /\ buy_candidates = <<>> /\ ts_rows = <<>>
    /\ \A t \in Threads :
          gw.caught = t => sellPc[t] = "balances" /\ balances[t] = <<>>

\* C11's case: a sell submission of trading_strategy has just raised.
C11_Witness ==
    /\ prog = "trader"
    /\ gw.caught = "trading_strategy"
    /\ gw.orders # <<>>
    /\ gw.orders[1].side = "sell"

\* C12: in a sell pass, a failure while one held position is evaluated leaves
\* the held positions that follow it in the pass still to be evaluated.
HeldRows(rows) ==
    {rows[i] : i \in {j \in DOMAIN rows : j > 1 /\ ~TsSkips(rows[j])}}

C12_RowFailureIsolated ==
    [][ /\ (tsPc = "rows" /\ gw'.caught = "trading_strategy") =>
              HeldRows(ts_rows) \subseteq Range(ts_rows')
        /\ gw'.caught = "row" =>
              \E t \in Threads : /\ sellPc[t] = "rows"
                                 /\ balances'[t] = Tail(balances[t]) ]_vars

\* C13: a buy order whose submission failed is not submitted again in the
\* same cycle of the buy loop (the failure is logged by the statement after
\* the call, lines 171 / 180, or by the except of the cycle, lines 184 / 238):
\* check_and_buy is at the start of its next cycle once it has submitted, and
\* trading_strategy submits for no ticker whose buy failed in the same cycle.
C13_NoRetryWithinCycle ==
    \A i \in DOMAIN gw.orders :
        gw.orders[i].side = "buy" =>
            /\ gw.orders[i].tried # "failed"
            /\ prog = "bot" => buyPc = "balance" /\ filtered_tickers = {}

\* C13's case: a buy is submitted for a ticker whose buy failed in the cycle
\* before: the ticker was nominated again.
C13_Witness ==
    \E i \in DOMAIN gw.orders :
        /\ gw.orders[i].side = "buy"
        /\ gw.orders[i].tried = "earlier"

\* C14: on candles enough for both windows at the previous row,
\* is_golden_cross is true exactly when the short average was at most the
\* long one at the previous row and is above it at the last row.
C14_GoldenCrossIff ==
    (indKind = "cross" /\ indRet # Pending /\ Len(data) > indArgs.long) =>
        LET n == Len(data)
            short == indArgs.period
            long == indArgs.long
            was == SumClose(data, n - short, n - 1) * long
                      <= SumClose(data, n - long, n - 1) * short
            is == SumClose(data, n - short + 1, n) * long
                      > SumClose(data, n - long + 1, n) * short
        IN indRet = Returned(Bool(was /\ is))

\* C15: determine_market_trend gives one of the three labels: "sideways" for
\* absent or empty data and for fewer than 26 candles, else "bull" exactly
\* when the average of the last 12 closes is above that of the last 26,
\* "bear" exactly when it is below, "sideways" when the two are equal.
C15_TrendLabels ==
    (indKind = "trend" /\ indRet # Pending) =>
        LET n == Len(data)
            s12 == SumClose(data, n - 11, n) * 26
            s26 == SumClose(data, n - 25, n) * 12
            label == indRet.a.s
        IN /\ indRet.tag = "returned"
           /\ indRet.a.kind = "label"
           /\ label \in Trends
           /\ (indArgs.absent \/ n < 26) => label = "sideways"
           /\ (~indArgs.absent /\ n >= 26) =>
                 /\ label = "bull" <=> s12 > s26
                 /\ label = "bear" <=> s12 < s26
                 /\ label = "sideways" <=> s12 = s26

\* C15's case: 26 candles or more whose last 12 closes average higher than
\* the last 26, classified.
C15_Witness ==
    /\ prog = "ind"
    /\ indKind = "trend"
    /\ ~indArgs.absent
    /\ Len(data) >= 26
    /\ indRet = Returned(Label("bull"))

\* C16: on fewer candles than its window, the empty and the one-candle
\* sequence included, calculate_rsi, is_golden_cross and
\* calculate_stochastic return an undefined value and do not raise.
C16_ShortDataUndefined ==
    ( /\ indKind \in {"rsi", "cross", "stochastic"}
      /\ indRet # Pending
      /\ Len(data) < (IF indKind = "cross" THEN indArgs.long ELSE indArgs.period) ) =>
        /\ indRet.tag = "returned"
        /\ indRet.a = NaN
        /\ indRet.b = NaN

\* C17: in the bull trend a position is sold at a profit whenever the price
\* is at least cost * (1 + 0.0005) * 1.005, as at cost 100 and price 100.6.
\* (1.0005 * 1.005 = 402201 / 400000; AvgPrice is a multiple of 10.)
C17_BullProfitWithFee ==
    ( /\ indKind = "sell"
      /\ indRet # Pending
      /\ indArgs.trend = "bull"
      /\ indArgs.price * 40000 >= (AvgPrice \div 10) * 402201 ) =>
        indRet = Returned(Label("profit"))

\* C18: the candles with closes 100, 100, 100, 100, 101 make a buy candidate
\* in the bull trend, and their RSI of period 2, whose average loss is zero,
\* lies within the band from 40 to 60.
ClosesOf(df) == [i \in DOMAIN df |-> df[i].close]

C18_ScenarioNominated ==
    (indRet # Pending /\ ClosesOf(data) = <<100, 100, 100, 100, 101>>) =>
        /\ (indKind = "nominate" /\ indArgs.trend = "bull") =>
              indRet = Returned(Bool(TRUE))
        /\ (indKind = "rsi" /\ indArgs.period = 2) =>
              /\ indRet.tag = "returned"
              /\ Le(Num(40, 1), indRet.a)
              /\ Le(indRet.a, Num(60, 1))

\* The stages of a cycle that have run once the cycle stands at pc.
CascOrder == <<"volumes", "top", "rise1", "rise035", "guard", "valid", "buy", "done">>
CascPast(stage) ==
    \E i, j \in DOMAIN CascOrder :
        /\ CascOrder[i] = stage
        /\ CascOrder[j] = cascPc
        /\ i < j

\* The fall of the last close from the one before, against num / den.
FellMoreThan(closes, num, den) ==
    (closes[1] - closes[2]) * den > num * closes[1]

FellAtLeast(closes, num, den) ==
    (closes[1] - closes[2]) * den >= num * closes[1]

\* C19: the last filter stage of check_and_buy drops an asset if and only if
\* its finest-interval close fell by more than 0.075% of the previous close,
\* so that an asset that fell by exactly 0.075% is kept; and an asset that
\* passed the stages before and fell by 0.1% or more is never among the final
\* candidates.
C19_GuardDropsIffFellMore ==
    /\ CascPast("guard") =>
          \A t \in rising_0_35_percent :
              (t \notin guarded) <=> FellMoreThan(market[t].s1, 75, 100000)
    /\ CascPast("valid") =>
          \A t \in rising_0_35_percent :
              FellAtLeast(market[t].s1, 1, 1000) => t \notin final_tickers

\* C20: the stages of a cycle of check_and_buy form a strict cascade: the top
\* 35 by latest daily volume, of these the ones that rose at least 1%, of
\* these the ones that rose at least 0.35%, of these the ones above the
\* downside guard, of these the valid ones; at most one buy is submitted, the
\* bought asset is one of the final survivors of the cycle, and no buy is
\* submitted when there are none.
C20_StrictCascade ==
    /\ top_35_tickers \subseteq volumes
    /\ Cardinality(top_35_tickers) <= TopN
    /\ CascPast("top") =>
          /\ Cardinality(volumes) >= TopN => Cardinality(top_35_tickers) = TopN
          /\ Cardinality(volumes) < TopN => top_35_tickers = volumes
          /\ \A t \in top_35_tickers : \A u \in volumes \ top_35_tickers :
                market[t].vol.volume >= market[u].vol.volume
    /\ rising_1_percent \subseteq top_35_tickers
    /\ \A t \in rising_1_percent : RisesAtLeast(market[t].m5, 1, 100)
    /\ rising_0_35_percent \subseteq rising_1_percent
    /\ \A t \in rising_0_35_percent : RisesAtLeast(market[t].s90, 35, 10000)
    /\ guarded \subseteq rising_0_35_percent
    /\ \A t \in guarded : AboveGuard(market[t].s1)
    /\ final_tickers \subseteq guarded
    /\ \A t \in final_tickers : market[t].valid
    /\ Len(selected) <= 1
    /\ \A i \in DOMAIN selected : selected[i] \in final_tickers
    /\ (cascPc = "done" /\ final_tickers = {}) => selected = <<>>
    /\ (cascPc = "done" /\ final_tickers # {}) => Len(selected) = 1

\* A cycle that ended with a buy, in which the cut at 35 and a later stage
\* each dropped a ticker.
C20_Witness ==
    /\ prog = "cascade"
    /\ cascPc = "done"
    /\ selected # <<>>
    /\ volumes # top_35_tickers
    /\ top_35_tickers # rising_1_percent
    /\ rising_1_percent # final_tickers

C22_NoBuyOfOwned ==
    /\ \A i \in DOMAIN gw.orders :
          (prog = "trader" /\ gw.orders[i].side = "buy") =>
              gw.orders[i].ticker \notin owned_tickers
    /\ tsPc \in {"buy_balance", "buy_order"} =>
          /\ buy_candidates # <<>>
          /\ Head(buy_candidates) \notin owned_tickers

\* A buy of one asset while the ledger last read reported the other as owned.
C22_Witness ==
    /\ prog = "trader"
    /\ owned_tickers # {}
    /\ \E i \in DOMAIN gw.orders :
          /\ gw.orders[i].side = "buy"
          /\ gw.orders[i].ok

\* C23: under the supervisor in main at most one trading_strategy thread is
\* alive at any time, and a new thread is started only by the check of main
\* that found the thread before it not alive, over any terminations and
\* checks.
C23_OneThreadAlive ==
    /\ [](\A i, j \in DOMAIN tsThreads : (tsThreads[i] /\ tsThreads[j]) => i = j)
    /\ [][ Len(tsThreads') > Len(tsThreads) =>
              /\ tsMainPc = "check"
              /\ \A i \in DOMAIN tsThreads : ~tsThreads[i]
              /\ tsThreads' = Append(tsThreads, TRUE) ]_vars

\* Two threads have ended and the third one, started by main, is running.
C23_Witness ==
    /\ prog = "sup"
    /\ Len(tsThreads) >= 3
    /\ tsThreads[Len(tsThreads)]

====
